---- MODULE Spec2Model ----
(***************************************************************************)
(* State-machine model of the scatter-plot interaction engine of           *)
(* src/src/components/PlayerDashboard.jsx: the React control state, the    *)
(* d3 scene the scatter effect builds (circles, connector lines, mean and  *)
(* trend lines, tooltip, zoom transform) and the event handlers that       *)
(* mutate them.  Attribute values are the values each handler's            *)
(* transitions settle on; pixel positions are integers.                    *)
(***************************************************************************)
EXTENDS Integers, Sequences, FiniteSets, TLC

(***************************************************************************)
(* Bounds of the model (not program constants).                            *)
(***************************************************************************)
MaxAllow == 1          \* longest name allowlist (selectedPlayers) explored
MaxStale == 1          \* stale tooltip <div>s counted before saturating
MaxPts == 4            \* rows of an array handed to the statistics functions
MaxCustom == 1         \* controls away from their default at the same time

(***************************************************************************)
(* JavaScript values.                                                      *)
(***************************************************************************)
Null == -1             \* parseCSV's null for an empty cell (metrics are >= 0)
NaNPx == -1000000      \* the NaN a scale returns for an undefined input
NoName == <<>>         \* no entity (a NAME is never empty)

\* Number(v) as arithmetic applies it to a cell: null coerces to 0.
Num(v) == IF v = Null THEN 0 ELSE v

Abs(i) == IF i < 0 THEN -i ELSE i

(***************************************************************************)
(* The entity store: parseCSV(csvData), rows in file order.  NAME is a     *)
(* sequence of characters, as is POS; TEAM "" is the null of an empty      *)
(* TEAM cell.                                                              *)
(***************************************************************************)
data ==
  << [NAME |-> <<"A","l">>, TEAM |-> "ATL", POS |-> <<"G">>, MPG |-> 30,
      USG |-> 20, PPG |-> 20, BPG |-> 0],
     [NAME |-> <<"B","o">>, TEAM |-> "ATL", POS |-> <<"F">>, MPG |-> 10,
      USG |-> 10, PPG |-> 18, BPG |-> 1],
     [NAME |-> <<"D","i">>, TEAM |-> "BOS", POS |-> <<"F">>, MPG |-> 30,
      USG |-> 30, PPG |-> 17, BPG |-> Null],
     [NAME |-> <<"E","d">>, TEAM |-> "", POS |-> <<"G","-","F">>, MPG |-> 20,
      USG |-> 10, PPG |-> 5, BPG |-> 2] >>

Players == {data[i] : i \in 1..Len(data)}
Names == {p.NAME : p \in Players}
playerOf == [n \in Names |-> CHOOSE p \in Players : p.NAME = n]
ByName(n) == playerOf[n]

\* Control values the model explores.
Metrics == {"PPG", "BPG"}
Views == {"scoring", "overview"}
Positions == {"ALL", "F", "C"}
MinuteChoices == {0, 20}
SearchTerms == {<<>>, <<"D">>}

DEFAULT_METRIC == "PPG"
DEFAULT_VIEW == "scoring"

PlotWidth == 120
PlotHeight == 120

(***************************************************************************)
(* Strings.                                                                *)
(***************************************************************************)
LowerChar(c) ==
  CASE c = "A" -> "a" [] c = "B" -> "b" [] c = "C" -> "c"
    [] c = "D" -> "d" [] c = "E" -> "e" [] OTHER -> c

toLowerCase(s) == [i \in 1..Len(s) |-> LowerChar(s[i])]

\* String.prototype.includes: t occurs in s as a contiguous substring.
StrIncludes(s, t) ==
  \E i \in 0..(Len(s) - Len(t)) : \A j \in 1..Len(t) : s[i + j] = t[j]

\* searchTerm && !NAME.toLowerCase().includes(searchTerm.toLowerCase())
SearchMiss(p, term) ==
  /\ term # <<>>
  /\ ~StrIncludes(toLowerCase(p.NAME), toLowerCase(term))

(***************************************************************************)
(* isValidPlayerData: typeof of a parsed cell is never 'undefined' (an     *)
(* empty cell is null), so only the truthiness of TEAM, POS, NAME decides. *)
(***************************************************************************)
isValidPlayerData(player, config) ==
  /\ config.x \in DOMAIN player
  /\ config.y \in DOMAIN player
  /\ player.TEAM # ""
  /\ player.POS # <<>>
  /\ player.NAME # <<>>

\* getChartConfig: the x key of the view, the y key is the selected metric.
getChartConfig(view, metric) ==
  [x |-> (CASE view = "scoring" -> "USG" [] view = "overview" -> "MPG"),
   y |-> metric]

(***************************************************************************)
(* Filter/projection.                                                      *)
(***************************************************************************)
SeqToSet(s) == {s[i] : i \in 1..Len(s)}

\* selectedPlayers.length === 0 || selectedPlayers.includes(player.NAME)
matchesSearch(player, allow) ==
  allow = <<>> \/ player.NAME \in SeqToSet(allow)

\* positionFilter === 'ALL' || player.POS.includes(positionFilter)
matchesPosition(player, pos) ==
  pos = "ALL" \/ \E i \in 1..Len(player.POS) : player.POS[i] = pos

\* player.MPG >= minMinutes
matchesMinutes(player, minM) == Num(player.MPG) >= minM

\* Variant: a filter without the minutes clause.
PassesFilterNoMinutes(player, allow, pos, minM) ==
  /\ matchesSearch(player, allow)
  /\ matchesPosition(player, pos)

\* The predicate of data.filter(...): the three clauses joined by &&.
PassesFilter(player, allow, pos, minM) ==
  /\ matchesSearch(player, allow)
  /\ matchesPosition(player, pos)
  /\ matchesMinutes(player, minM)

RemoveAt(s, i) == SubSeq(s, 1, i - 1) \o SubSeq(s, i + 1, Len(s))

\* Variant: no sort after the filter.
SortDescKeepsOrder(s, key) == s

RECURSIVE SortDesc(_, _)
\* Array.prototype.sort((a, b) => b[key] - a[key]): stable, descending.
SortDesc(s, key) ==
  IF s = <<>> THEN <<>>
  ELSE LET best == CHOOSE i \in 1..Len(s) :
                     /\ \A j \in 1..Len(s) : Num(s[j][key]) <= Num(s[i][key])
                     /\ \A j \in 1..(i - 1) : Num(s[j][key]) < Num(s[i][key])
       IN <<s[best]>> \o SortDesc(RemoveAt(s, best), key)

\* filteredPlayers of the component body.
filteredPlayers(allow, pos, minM, metric) ==
  LET Keep(p) == PassesFilter(p, allow, pos, minM)
  IN SortDesc(SelectSeq(data, Keep), metric)

\* Variant: the sort applied to the store itself.
dataSortedInPlace(st, metric) == SortDesc(st, metric)

\* The store after the component body and the bar-chart effect have run:
\* the .sort of either is chained to data.filter(...), which returns a new
\* array, so the array held by the data hook is not reordered.
dataAfterRender(st, metric) == st

\* validPlayers: the data bound to the circles.
validPlayers(allow, pos, minM, config) ==
  LET Ok(p) == isValidPlayerData(p, config)
  IN SelectSeq(filteredPlayers(allow, pos, minM, config.y), Ok)

(***************************************************************************)
(* Statistics (d3.max, d3.min, d3.mean skip null cells).                   *)
(***************************************************************************)
NonNull(s, key) ==
  LET Has(p) == p[key] # Null IN SelectSeq(s, Has)

RECURSIVE SumOf(_, _)
SumOf(s, key) ==
  IF s = <<>> THEN 0 ELSE Num(Head(s)[key]) + SumOf(Tail(s), key)

RECURSIVE SumProd(_, _, _)
SumProd(s, k1, k2) ==
  IF s = <<>> THEN 0
  ELSE Num(Head(s)[k1]) * Num(Head(s)[k2]) + SumProd(Tail(s), k1, k2)

\* d3.max(s, d => d[key]); Null when no cell has a value (undefined).
d3max(s, key) ==
  LET vs == {p[key] : p \in SeqToSet(NonNull(s, key))}
  IN IF vs = {} THEN Null ELSE CHOOSE m \in vs : \A v \in vs : v <= m

d3min(s, key) ==
  LET vs == {p[key] : p \in SeqToSet(NonNull(s, key))}
  IN IF vs = {} THEN Null ELSE CHOOSE m \in vs : \A v \in vs : m <= v

\* d3.mean(s, d => d[key]) as the fraction sum/n; n = 0 is undefined.
d3mean(s, key) ==
  [sum |-> SumOf(NonNull(s, key), key), n |-> Len(NonNull(s, key))]

(***************************************************************************)
(* Coordinate mapper.  The base scales have domain [0, d3.max(data)] and   *)
(* ranges [0, width] and [height, 0]; a fraction num/den of data units     *)
(* maps to an integer pixel.                                               *)
(***************************************************************************)
MetricKeys == {"MPG", "USG", "PPG", "BPG"}

\* The upper end of a base scale's domain: d3.max(data, d => d[key]).
domainTop == [key \in MetricKeys |-> d3max(data, key)]

\* Variant: a domain that starts at the least value of the column.
xScaleFracFromMin(num, den, config) ==
  LET top == domainTop[config.x]
      lo  == Num(d3min(data, config.x))
  IN IF den = 0 \/ top = Null \/ top = lo THEN NaNPx
     ELSE ((num - den * lo) * PlotWidth) \div (den * (top - lo))

xScaleFrac(num, den, config) ==
  LET top == domainTop[config.x]
  IN IF den = 0 \/ top = Null \/ top = 0 THEN NaNPx
     ELSE (num * PlotWidth) \div (den * top)

yScaleFrac(num, den, config) ==
  LET top == domainTop[config.y]
  IN IF den = 0 \/ top = Null \/ top = 0 THEN NaNPx
     ELSE PlotHeight - ((num * PlotHeight) \div (den * top))

\* x(d[config.x]) and y(d[config.y]) of the base scales.
xScale(v, config) == xScaleFrac(Num(v), 1, config)
yScale(v, config) == yScaleFrac(Num(v), 1, config)

\* transform.rescaleX(x)(v) = k * x(v) + transform.x, likewise for y.
applyX(t, px) == IF px = NaNPx THEN NaNPx ELSE t.k * px + t.x
applyY(t, px) == IF px = NaNPx THEN NaNPx ELSE t.k * px + t.y

zoomIdentity == [k |-> 1, x |-> 0, y |-> 0]

(***************************************************************************)
(* calculateRegressionLine(filteredPlayers, x, y): slope N/D with          *)
(* N = n*Sxy - Sx*Sy and D = n*Sxx - Sx*Sx; the value at x0 is             *)
(* (Sy*D + N*(n*x0 - Sx)) / (n*D).  Endpoints at d3.min and d3.max of x.   *)
(***************************************************************************)
\* Variant: the denominator taken from the y column.
RegressionAtOnY(s, x0, config) ==
  LET n   == Len(s)
      Sx  == SumOf(s, config.x)
      Sy  == SumOf(s, config.y)
      N   == n * SumProd(s, config.x, config.y) - Sx * Sy
      D   == n * SumProd(s, config.y, config.y) - Sy * Sy
  IN [num |-> Sy * D + N * (n * x0 - Sx), den |-> n * D]

RegressionAt(s, x0, config) ==
  LET n   == Len(s)
      Sx  == SumOf(s, config.x)
      Sy  == SumOf(s, config.y)
      N   == n * SumProd(s, config.x, config.y) - Sx * Sy
      D   == n * SumProd(s, config.x, config.x) - Sx * Sx
  IN [num |-> Sy * D + N * (n * x0 - Sx), den |-> n * D]

\* Variant: a line drawn from x = 0 to the largest x.
calculateRegressionLineFromZero(s, config) ==
  [x1 |-> 0, y1 |-> RegressionAt(s, 0, config),
   x2 |-> d3max(s, config.x), y2 |-> RegressionAt(s, Num(d3max(s, config.x)), config)]

\* The value calculateRegressionLine returns: two endpoints, each y kept as
\* the fraction num/den (den = 0 is the NaN of a division 0/0).
calculateRegressionLine(s, config) ==
  [x1 |-> d3min(s, config.x), y1 |-> RegressionAt(s, Num(d3min(s, config.x)), config),
   x2 |-> d3max(s, config.x), y2 |-> RegressionAt(s, Num(d3max(s, config.x)), config)]

\* The pixel geometry of the trend line appended at the end of the effect.
trendLine(s, config) ==
  LET lo == d3min(s, config.x)
      hi == d3max(s, config.x)
      y0 == RegressionAt(s, Num(lo), config)
      y1 == RegressionAt(s, Num(hi), config)
  IN IF lo = Null THEN [x1 |-> NaNPx, y1 |-> NaNPx, x2 |-> NaNPx, y2 |-> NaNPx]
     ELSE [x1 |-> xScale(lo, config), y1 |-> yScaleFrac(y0.num, y0.den, config),
           x2 |-> xScale(hi, config), y2 |-> yScaleFrac(y1.num, y1.den, config)]

RECURSIVE SumSqDev(_, _, _)
\* data.reduce((sum, d) => sum + Math.pow(d[key] - mean, 2), 0) with mean =
\* m.sum / m.n, times m.n squared.
SumSqDev(s, key, m) ==
  IF s = <<>> THEN 0
  ELSE (m.n * Num(Head(s)[key]) - m.sum) * (m.n * Num(Head(s)[key]) - m.sum)
       + SumSqDev(Tail(s), key, m)

RECURSIVE SumDevProd(_, _, _, _, _)
\* data.reduce((sum, d) => sum + (d[xKey] - xMean) * (d[yKey] - yMean), 0),
\* times mx.n * my.n.
SumDevProd(s, xKey, yKey, mx, my) ==
  IF s = <<>> THEN 0
  ELSE (mx.n * Num(Head(s)[xKey]) - mx.sum) * (my.n * Num(Head(s)[yKey]) - my.sum)
       + SumDevProd(Tail(s), xKey, yKey, mx, my)

\* The three sums calculateCorrelation divides: the coefficient is
\* numerator / sqrt(xVariance * yVariance), and the factors the sums are
\* scaled by cancel in that quotient.
correlationTerms(s, xKey, yKey) ==
  [numerator |-> SumDevProd(s, xKey, yKey, d3mean(s, xKey), d3mean(s, yKey)),
   xVariance |-> SumSqDev(s, xKey, d3mean(s, xKey)),
   yVariance |-> SumSqDev(s, yKey, d3mean(s, yKey))]

\* calculateCorrelation(data, xKey, yKey): numerator / Math.sqrt(xVariance *
\* yVariance).  An empty array gives 0 / 0; an undefined mean makes every
\* term NaN; a zero variance makes the numerator 0 as well, so 0 / 0.  The
\* result is kept as its kind: "NaN" or "finite".
calculateCorrelation(s, xKey, yKey) ==
  LET xMean == d3mean(s, xKey)
      yMean == d3mean(s, yKey)
  IN IF s = <<>> THEN "NaN"
     ELSE IF xMean.n = 0 \/ yMean.n = 0 THEN "NaN"
     ELSE IF SumSqDev(s, xKey, xMean) * SumSqDev(s, yKey, yMean) = 0 THEN "NaN"
     ELSE "finite"

\* The two mean lines: x(xMean) for the vertical, y(yMean) for the horizontal.
meanLines(s, config) ==
  LET mx == d3mean(s, config.x)
      my == d3mean(s, config.y)
  IN [x |-> xScaleFrac(mx.sum, mx.n, config),
      y |-> yScaleFrac(my.sum, my.n, config)]

(***************************************************************************)
(* Similarity test of the click handler.  statDiff is an IEEE division:    *)
(* a zero divisor gives Infinity (or NaN for 0/0), and every comparison    *)
(* with those is false.                                                    *)
(***************************************************************************)
statDiff(pv, dv) ==
  IF Num(dv) = 0
  THEN [kind |-> IF Num(pv) = 0 THEN "NaN" ELSE "Infinity", num |-> 0, den |-> 1]
  ELSE [kind |-> "finite", num |-> Abs(Num(pv) - Num(dv)), den |-> Num(dv)]

\* statDiff < 0.2
BelowThreshold(sd) == sd.kind = "finite" /\ 5 * sd.num < sd.den

\* The filter predicate that builds similarPlayers for a clicked datum d.
similarTest(p, d, config) ==
  /\ isValidPlayerData(p, config)
  /\ (p.POS = d.POS \/ p.TEAM = d.TEAM)
  /\ BelowThreshold(statDiff(p[config.y], d[config.y]))

(***************************************************************************)
(* d3.zoom().scaleExtent([1, 8]).extent(plot).translateExtent(plot).       *)
(***************************************************************************)
ScaleMin == 1
ScaleMax == 8

Min2(a, b) == IF a < b THEN a ELSE b
Max2(a, b) == IF a > b THEN a ELSE b

\* Variant: a scale extent with a lower end only.
ClampScaleFloorOnly(k) == Max2(ScaleMin, k)

\* The scale factor a gesture asks for, clamped to scaleExtent.
ClampScale(k) == Max2(ScaleMin, Min2(ScaleMax, k))

\* Variant: no constraint on the translation.
ConstrainAxisFree(k, t, size) == t

\* One axis of d3's default constrain: the viewport [0, size] inverted
\* through the transform may not leave [0, size].
ConstrainAxis(k, t, size) ==
  IF t > 0 THEN 0
  ELSE IF size - t - k * size > 0 THEN size - k * size
  ELSE t

\* Scaling to k1 with the data point under the pointer position p kept put,
\* before the translation is constrained.
ScaleAbout(t, p, k1) ==
  [k |-> k1,
   x |-> p[1] - ((p[1] - t.x) * k1) \div t.k,
   y |-> p[2] - ((p[2] - t.y) * k1) \div t.k]

\* Zoom about the pointer position p to the scale k1: the data point under
\* the pointer stays put, then the translation is constrained.
ZoomAbout(t, p, k1) ==
  [k |-> k1,
   x |-> ConstrainAxis(k1, ScaleAbout(t, p, k1).x, PlotWidth),
   y |-> ConstrainAxis(k1, ScaleAbout(t, p, k1).y, PlotHeight)]

\* Pointer positions of the zoom gestures the model explores.
ZoomAnchors == {<<80, 40>>}

(***************************************************************************)
(* State.                                                                  *)
(***************************************************************************)
VARIABLES
  searchTerm,       \* useState('')
  selectedMetric,   \* useState('PPG')
  selectedView,     \* useState('scoring')
  positionFilter,   \* useState('ALL')
  selectedPlayers,  \* useState([]): the name allowlist
  searchResults,    \* useState([]): the suggestion list
  minMinutes,       \* useState(0)
  activeFilters,    \* useState({position, minutes, search, metric, view})
  mounted,          \* FALSE once an effect has thrown and React unmounted
  circles,          \* NAME -> attributes of the circle bound to that datum
  lines,            \* the .connection-line elements
  transform,        \* the zoom transform stored on the zoom overlay
  means,            \* pixel positions of the two mean lines
  trend,            \* pixel geometry of the .trend-line
  corrLabel,        \* the number the correlation label prints
  tooltip,          \* the tooltip <div> of the current render
  staleTooltips,    \* tooltip <div>s of earlier renders left in <body>
  staleVisible,     \* whether one of those is still visible
  pointerOn,        \* the circle whose mouseover fired without mouseout yet
  lastEvent,        \* the event handled last (history, for the properties)
  store,            \* useState([]) after the load effect: the parsed rows
  running,          \* NAME -> end radius of the circle's running transition
  sample,           \* an array handed to the statistics functions
  fit               \* what the statistics functions returned for it

controls == <<searchTerm, selectedMetric, selectedView, positionFilter,
              selectedPlayers, searchResults, minMinutes, activeFilters>>
scene == <<circles, lines, transform, means, trend, corrLabel, tooltip,
           staleTooltips, staleVisible, pointerOn>>
vars == <<controls, mounted, scene, lastEvent, store, running, sample, fit>>

config == getChartConfig(selectedView, selectedMetric)

\* The default opacity of a circle: 0.3 when the search term misses it.
baseOpacity(n, term) == IF SearchMiss(ByName(n), term) THEN 30 ELSE 70

noFilters == [position |-> FALSE, minutes |-> FALSE, search |-> FALSE,
              metric |-> FALSE, view |-> FALSE]

\* The tooltip <div> while hidden (its html is then read by nothing and is
\* not modelled).
hiddenTooltip == [visible |-> FALSE, kind |-> "empty", who |-> NoName, count |-> 0]

noCircles == [n \in {} |-> FALSE]

\* History: the kind of the event handled last; for a click or a reset the
\* name selected before it (prev); for a reset the zoom scale and the number
\* of customised controls before it; for a zoom the scale the gesture asked
\* for before clamping, the scale before it, and whether the constraint
\* moved the translation the gesture asked for; for a mouseover the radius
\* the circle had when the pointer entered.
Event(kind, prev, preK, preCustom, asked, moved, hadR) ==
  [kind |-> kind, prev |-> prev, preK |-> preK, preCustom |-> preCustom,
   asked |-> asked, moved |-> moved, hadR |-> hadR]

Plain(kind) == Event(kind, NoName, 1, 0, 1, FALSE, 0)

\* The name of the circle carrying class 'selected', NoName when none does.
SelectedNames == {n \in DOMAIN circles : circles[n].selected}
primary == IF SelectedNames = {} THEN NoName ELSE CHOOSE n \in SelectedNames : TRUE

(***************************************************************************)
(* The scatter effect: everything under scatterRef is removed and rebuilt  *)
(* from the current control state; the zoom overlay is a new element, so   *)
(* its transform is the identity.                                          *)
(***************************************************************************)
freshCircles(term, metric, view, pos, allow, minM) ==
  LET cfg == getChartConfig(view, metric)
      vp  == validPlayers(allow, pos, minM, cfg)
  IN [n \in {p.NAME : p \in SeqToSet(vp)} |->
        [cx |-> xScale(ByName(n)[cfg.x], cfg),
         cy |-> yScale(ByName(n)[cfg.y], cfg),
         r |-> 6, opacity |-> baseOpacity(n, term),
         stroke |-> "none", strokeWidth |-> 10, selected |-> FALSE]]

\* d3.mean of the bar chart's primary or secondary metric is undefined, so
\* primaryMean.toFixed(1) / secondaryMean.toFixed(1) throws a TypeError.
barChartThrows(metric, view, pos, allow, minM) ==
  LET fd == filteredPlayers(allow, pos, minM, metric)
      secondary == getChartConfig(view, metric).x
  IN d3mean(fd, metric).n = 0 \/ d3mean(fd, secondary).n = 0

\* Variant: dependencies compared by value, so that an empty allowlist set
\* again is no change.
depsChangedByValue(term, metric, view, pos, minM, newArray) ==
  \/ term # searchTerm
  \/ metric # selectedMetric
  \/ view # selectedView
  \/ pos # positionFilter
  \/ minM # minMinutes

\* The effect's dependency test (Object.is per dependency); a setter called
\* with a new array literal always changes selectedPlayers.
depsChanged(term, metric, view, pos, minM, newArray) ==
  \/ term # searchTerm
  \/ metric # selectedMetric
  \/ view # selectedView
  \/ pos # positionFilter
  \/ minM # minMinutes
  \/ newArray

\* How many of the controls are away from their default.
customised(term, metric, view, pos, allow, minM) ==
  (IF term # <<>> THEN 1 ELSE 0) + (IF metric # DEFAULT_METRIC THEN 1 ELSE 0)
  + (IF view # DEFAULT_VIEW THEN 1 ELSE 0) + (IF pos # "ALL" THEN 1 ELSE 0)
  + (IF allow # <<>> THEN 1 ELSE 0) + (IF minM # 0 THEN 1 ELSE 0)

\* The names a suggestion list can offer for the search terms explored.
Suggestible ==
  {n \in Names : \E t \in SearchTerms \ {<<>>} :
     StrIncludes(toLowerCase(n), toLowerCase(t))}

\* The allowlists the model can hold: names enter only from a suggestion
\* list, up to MaxAllow of them where every control is explored, one more
\* where only the search box is.
Allowlists == UNION {[1..k -> Suggestible] : k \in 0..(MaxAllow + 1)}

ControlSpace == SearchTerms \X Metrics \X Views \X Positions \X Allowlists \X MinuteChoices

\* What one run of the scatter effect (and of the bar-chart effect after
\* it) produces from the control state.
rendered(term, metric, view, pos, allow, minM) ==
  LET cfg == getChartConfig(view, metric)
      fp  == filteredPlayers(allow, pos, minM, metric)
  IN [circles |-> freshCircles(term, metric, view, pos, allow, minM),
      means |-> meanLines(fp, cfg),
      trend |-> trendLine(fp, cfg),
      correlation |-> calculateCorrelation(fp, cfg.x, cfg.y),
      throws |-> barChartThrows(metric, view, pos, allow, minM)]

\* rendered, tabulated once over the control space.
renderTable ==
  [c \in {} |-> 0] @@
  [c \in ControlSpace |-> rendered(c[1], c[2], c[3], c[4], c[5], c[6])]

\* A state update followed by the effects it triggers.
Commit(term, metric, view, pos, allow, results, minM, flags, newArray, ev) ==
  LET out == renderTable[<<term, metric, view, pos, allow, minM>>]
      rerender == depsChanged(term, metric, view, pos, minM, newArray)
      crash == rerender /\ out.throws
  IN /\ searchTerm' = term
     /\ selectedMetric' = metric
     /\ selectedView' = view
     /\ positionFilter' = pos
     /\ selectedPlayers' = allow
     /\ searchResults' = results
     /\ minMinutes' = minM
     /\ activeFilters' = flags
     /\ mounted' = ~crash
     /\ store' = dataAfterRender(store, metric)
     /\ lastEvent' =
          IF crash THEN Plain("crash")
          ELSE IF ev = "reset"
          THEN Event("reset", primary, transform.k,
                     customised(searchTerm, selectedMetric, selectedView,
                                positionFilter, selectedPlayers, minMinutes), 1,
                     FALSE, 0)
          ELSE Plain(ev)
     /\ IF rerender
        THEN /\ circles' = IF crash THEN noCircles ELSE out.circles
             /\ lines' = {}
             /\ transform' = zoomIdentity
             /\ means' = out.means
             /\ trend' = out.trend
             /\ corrLabel' = out.correlation
             /\ tooltip' = hiddenTooltip
             /\ staleTooltips' = Min2(staleTooltips + 1, MaxStale)
             /\ staleVisible' = (staleVisible \/ tooltip.visible)
             /\ pointerOn' = NoName
        ELSE UNCHANGED scene

\* No circle has a running transition.
noTransitions == [n \in Names |-> 0]

\* Nothing has been handed to the statistics functions.
noFit == [done |-> FALSE]

\* The dashboard after the load effect and the first run of both chart
\* effects.
InitDashboard ==
  /\ searchTerm = <<>>
  /\ selectedMetric = DEFAULT_METRIC
  /\ selectedView = DEFAULT_VIEW
  /\ positionFilter = "ALL"
  /\ selectedPlayers = <<>>
  /\ searchResults = <<>>
  /\ minMinutes = 0
  /\ activeFilters = noFilters
  /\ mounted = TRUE
  /\ circles = renderTable[<<<<>>, DEFAULT_METRIC, DEFAULT_VIEW, "ALL", <<>>, 0>>].circles
  /\ lines = {}
  /\ transform = zoomIdentity
  /\ means = renderTable[<<<<>>, DEFAULT_METRIC, DEFAULT_VIEW, "ALL", <<>>, 0>>].means
  /\ trend = renderTable[<<<<>>, DEFAULT_METRIC, DEFAULT_VIEW, "ALL", <<>>, 0>>].trend
  /\ corrLabel =
       renderTable[<<<<>>, DEFAULT_METRIC, DEFAULT_VIEW, "ALL", <<>>, 0>>].correlation
  /\ tooltip = hiddenTooltip
  /\ staleTooltips = 0
  /\ staleVisible = FALSE
  /\ pointerOn = NoName
  /\ lastEvent = Plain("load")
  /\ store = data

\* The dashboard at rest: the transitions of the first render have run to
\* their end.
Init ==
  /\ InitDashboard
  /\ running = noTransitions
  /\ sample = <<>>
  /\ fit = noFit

(***************************************************************************)
(* The statistics functions on their own: arrays of up to MaxPts rows      *)
(* over a handful of (x, y) cells, one of them with an empty x cell, are   *)
(* handed to calculateRegressionLine and calculateCorrelation.             *)
(***************************************************************************)
\* A row with the two columns the default chart configuration reads.
Pt(x, y) == [USG |-> x, PPG |-> y]

SamplePoints == {Pt(1, 2), Pt(2, 4), Pt(3, 5), Pt(4, 8), Pt(Null, 4)}

Samples == UNION {[1..k -> SamplePoints] : k \in 0..MaxPts}

statsConfig == getChartConfig(DEFAULT_VIEW, DEFAULT_METRIC)

InitStats ==
  /\ InitDashboard
  /\ running = noTransitions
  /\ sample \in Samples
  /\ fit = noFit

\* calculateRegressionLine(sample, x, y) and calculateCorrelation(sample, x, y).
Fit ==
  /\ ~fit.done
  /\ fit' = [done |-> TRUE,
             line |-> calculateRegressionLine(sample, statsConfig),
             corr |-> correlationTerms(sample, statsConfig.x, statsConfig.y)]
  /\ UNCHANGED <<controls, mounted, scene, lastEvent, store, running, sample>>

NextStats == Fit

SpecStats == InitStats /\ [][NextStats]_vars

(***************************************************************************)
(* Pointer handlers of the circles.                                        *)
(***************************************************************************)
\* allDots.on('mouseover'): the dot grows, circles sharing its team or
\* position get opacity 0.5, the tooltip shows the hover content.
MouseOver(n) ==
  /\ mounted
  /\ n \in DOMAIN circles
  /\ pointerOn = NoName
  /\ isValidPlayerData(ByName(n), config)
  /\ circles' = [m \in DOMAIN circles |->
       IF m = n
       THEN [circles[m] EXCEPT !.r = 8, !.opacity = 100,
                               !.stroke = "#fff", !.strokeWidth = 20]
       ELSE IF /\ isValidPlayerData(ByName(m), config)
               /\ (ByName(m).TEAM = ByName(n).TEAM \/ ByName(m).POS = ByName(n).POS)
            THEN [circles[m] EXCEPT !.opacity = 50,
                                    !.stroke = "#fff", !.strokeWidth = 10]
            ELSE circles[m]]
  /\ tooltip' = [visible |-> TRUE, kind |-> "hover", who |-> n, count |-> 0]
  /\ pointerOn' = n
  /\ lastEvent' = Event("mouseover", NoName, 1, 0, 1, FALSE, circles[n].r)
  /\ UNCHANGED <<store, controls, mounted, lines, transform, means, trend, corrLabel,
                 staleTooltips, staleVisible>>

\* allDots.on('mouseout'): unless the dot is selected, it and every circle
\* that is not selected return to the default opacity and stroke width;
\* the tooltip is hidden in either case.
MouseOut(n) ==
  /\ mounted
  /\ n \in DOMAIN circles
  /\ pointerOn = n
  /\ isValidPlayerData(ByName(n), config)
  /\ circles' = [m \in DOMAIN circles |->
       IF circles[n].selected THEN circles[m]
       ELSE IF m = n
       THEN [circles[m] EXCEPT !.r = 6, !.opacity = baseOpacity(m, searchTerm),
                               !.strokeWidth = 10]
       ELSE IF ~circles[m].selected
       THEN [circles[m] EXCEPT !.opacity = baseOpacity(m, searchTerm),
                               !.strokeWidth = 10]
       ELSE circles[m]]
  /\ tooltip' = hiddenTooltip
  /\ pointerOn' = NoName
  /\ lastEvent' = Plain("mouseout")
  /\ UNCHANGED <<store, controls, mounted, lines, transform, means, trend, corrLabel,
                 staleTooltips, staleVisible>>

\* similarPlayers: the circles passing the similarity filter for datum d.
similarPlayers(n) ==
  {m \in DOMAIN circles : similarTest(ByName(m), ByName(n), config)}

\* The connector lines drawn for a selection of n: one per similar circle
\* other than n, from the base-scale pixel of n to the base-scale pixel of
\* the similar datum.  source and target name the data the ends come from.
connectionLines(n) ==
  {[source |-> n, target |-> m,
    x1 |-> xScale(ByName(n)[config.x], config),
    y1 |-> yScale(ByName(n)[config.y], config),
    x2 |-> xScale(ByName(m)[config.x], config),
    y2 |-> yScale(ByName(m)[config.y], config)] : m \in similarPlayers(n) \ {n}}

\* Variant: a removal that finds no line.
removeLinesFindsNone(ls) == ls

\* The lines left after svg.selectAll('.connection-line').remove().
removeLines(ls) == {}

\* Variant: a selecting click that does not clear class 'selected' from the
\* other circles first.
selectDotKeepsOthers(n) ==
  /\ circles' = [m \in DOMAIN circles |->
       IF m = n
       THEN [circles[m] EXCEPT !.selected = TRUE, !.opacity = 100, !.r = 9,
                               !.stroke = "#ff6b6b", !.strokeWidth = 25]
       ELSE IF m \in similarPlayers(n)
       THEN [circles[m] EXCEPT !.opacity = 100, !.r = 7,
                               !.stroke = "#fff", !.strokeWidth = 15]
       ELSE [circles[m] EXCEPT !.opacity = 15, !.r = 4, !.strokeWidth = 0]]
  /\ lines' = removeLines(lines) \cup connectionLines(n)
  /\ tooltip' = [visible |-> TRUE, kind |-> "select", who |-> n,
                 count |-> Cardinality(similarPlayers(n)) - 1]
  /\ lastEvent' = Event("select", primary, 1, 0, 1, FALSE, 0)

\* The branch of the click handler taken when the dot was not selected.
selectDot(n) ==
  /\ circles' = [m \in DOMAIN circles |->
       IF m = n
       THEN [circles[m] EXCEPT !.selected = TRUE, !.opacity = 100, !.r = 9,
                               !.stroke = "#ff6b6b", !.strokeWidth = 25]
       ELSE IF m \in similarPlayers(n)
       THEN [circles[m] EXCEPT !.selected = FALSE, !.opacity = 100, !.r = 7,
                               !.stroke = "#fff", !.strokeWidth = 15]
       ELSE [circles[m] EXCEPT !.selected = FALSE, !.opacity = 15, !.r = 4,
                               !.strokeWidth = 0]]
  /\ lines' = removeLines(lines) \cup connectionLines(n)
  /\ tooltip' = [visible |-> TRUE, kind |-> "select", who |-> n,
                 count |-> Cardinality(similarPlayers(n)) - 1]
  /\ lastEvent' = Event("select", primary, 1, 0, 1, FALSE, 0)

\* Variant: a deselecting click that leaves the connector lines in place.
deselectDotKeepsLines(n) ==
  /\ circles' = [m \in DOMAIN circles |->
       [circles[m] EXCEPT !.selected = FALSE, !.r = 6,
                          !.opacity = baseOpacity(m, searchTerm),
                          !.strokeWidth = 10]]
  /\ lines' = lines
  /\ tooltip' = hiddenTooltip
  /\ lastEvent' = Event("deselect", primary, 1, 0, 1, FALSE, 0)

\* The branch taken when the dot carried class 'selected'.
deselectDot(n) ==
  /\ circles' = [m \in DOMAIN circles |->
       [circles[m] EXCEPT !.selected = FALSE, !.r = 6,
                          !.opacity = baseOpacity(m, searchTerm),
                          !.strokeWidth = 10]]
  /\ lines' = removeLines(lines)
  /\ tooltip' = hiddenTooltip
  /\ lastEvent' = Event("deselect", primary, 1, 0, 1, FALSE, 0)

\* allDots.on('click').  stopPropagation keeps the event from the svg
\* group's click handler.
ClickDot(n) ==
  /\ mounted
  /\ n \in DOMAIN circles
  /\ pointerOn \in {n, NoName}
  /\ isValidPlayerData(ByName(n), config)
  /\ IF circles[n].selected THEN deselectDot(n) ELSE selectDot(n)
  /\ UNCHANGED <<store, controls, mounted, transform, means, trend, corrLabel,
                 staleTooltips, staleVisible, pointerOn>>

\* The test svg.on('click') makes of event.target.tagName.
svgClickHandles(tag) == tag \in {"svg", "rect"}

\* Variant: a canvas click that restyles the circles without clearing class
\* 'selected'.
ClickCanvasKeepsClass ==
  /\ mounted
  /\ pointerOn = NoName
  /\ svgClickHandles("rect")
  /\ lines' = removeLines(lines)
  /\ circles' = [m \in DOMAIN circles |->
       [circles[m] EXCEPT !.r = 6,
                          !.opacity = baseOpacity(m, searchTerm),
                          !.strokeWidth = 10]]
  /\ tooltip' = hiddenTooltip
  /\ lastEvent' = Event("canvas", primary, 1, 0, 1, FALSE, 0)
  /\ UNCHANGED <<store, controls, mounted, transform, means, trend, corrLabel,
                 staleTooltips, staleVisible, pointerOn>>

\* Variant: a canvas click that clears the selection and leaves the
\* connector lines in place.
ClickCanvasKeepsLines ==
  /\ mounted
  /\ pointerOn = NoName
  /\ svgClickHandles("rect")
  /\ lines' = lines
  /\ circles' = [m \in DOMAIN circles |->
       [circles[m] EXCEPT !.selected = FALSE, !.r = 6,
                          !.opacity = baseOpacity(m, searchTerm),
                          !.strokeWidth = 10]]
  /\ tooltip' = hiddenTooltip
  /\ lastEvent' = Event("canvas", primary, 1, 0, 1, FALSE, 0)
  /\ UNCHANGED <<store, controls, mounted, transform, means, trend, corrLabel,
                 staleTooltips, staleVisible, pointerOn>>

\* svg.on('click') for a click whose target is the zoom overlay <rect>.
ClickCanvas ==
  /\ mounted
  /\ pointerOn = NoName
  /\ svgClickHandles("rect")
  /\ lines' = removeLines(lines)
  /\ circles' = [m \in DOMAIN circles |->
       [circles[m] EXCEPT !.selected = FALSE, !.r = 6,
                          !.opacity = baseOpacity(m, searchTerm),
                          !.strokeWidth = 10]]
  /\ tooltip' = hiddenTooltip
  /\ lastEvent' = Event("canvas", primary, 1, 0, 1, FALSE, 0)
  /\ UNCHANGED <<store, controls, mounted, transform, means, trend, corrLabel,
                 staleTooltips, staleVisible, pointerOn>>

(***************************************************************************)
(* Zoom.                                                                   *)
(***************************************************************************)
\* The connector lines plotArea.selectAll('.connection-line') finds: the
\* lines are appended to the svg group, not to plotArea, so it finds none.
linesInPlotArea(ls) == {}

\* The radius zoomed() gives a circle.
zoomRadius(n) ==
  IF circles[n].selected THEN 8
  ELSE IF SearchMiss(ByName(n), searchTerm) THEN 4
  ELSE 6

\* Variant: a zoom handler that re-projects the circles only while the scale
\* is above 1, leaving them where they are on the way back to scale 1.
zoomedSkipsIdentity(t) ==
  /\ transform' = t
  /\ circles' = [n \in DOMAIN circles |->
       IF t.k = 1 THEN circles[n]
       ELSE [circles[n] EXCEPT
               !.cx = applyX(t, xScale(ByName(n)[config.x], config)),
               !.cy = applyY(t, yScale(ByName(n)[config.y], config)),
               !.r = zoomRadius(n)]]
  /\ lines' = lines
  /\ UNCHANGED <<store, controls, mounted, means, trend, corrLabel, tooltip,
                 staleTooltips, staleVisible, pointerOn>>

\* Variant: a zoom handler that also clears class 'selected'.
zoomedClearsSelection(t) ==
  /\ transform' = t
  /\ circles' = [n \in DOMAIN circles |->
       [circles[n] EXCEPT
          !.selected = FALSE,
          !.cx = applyX(t, xScale(ByName(n)[config.x], config)),
          !.cy = applyY(t, yScale(ByName(n)[config.y], config)),
          !.r = zoomRadius(n)]]
  /\ lines' = lines
  /\ UNCHANGED <<store, controls, mounted, means, trend, corrLabel, tooltip,
                 staleTooltips, staleVisible, pointerOn>>

\* function zoomed(event): circles (and the connector lines it finds) are
\* re-projected through the rescaled axes; nothing else of the scene is.
zoomed(t) ==
  /\ transform' = t
  /\ circles' = [n \in DOMAIN circles |->
       [circles[n] EXCEPT
          !.cx = applyX(t, xScale(ByName(n)[config.x], config)),
          !.cy = applyY(t, yScale(ByName(n)[config.y], config)),
          !.r = zoomRadius(n)]]
  /\ lines' = (lines \ linesInPlotArea(lines)) \cup
       {[l EXCEPT
           !.x1 = applyX(t, xScale(ByName(l.source)[config.x], config)),
           !.y1 = applyY(t, yScale(ByName(l.source)[config.y], config)),
           !.x2 = applyX(t, xScale(ByName(l.target)[config.x], config)),
           !.y2 = applyY(t, yScale(ByName(l.target)[config.y], config))]
          : l \in linesInPlotArea(lines)}
  /\ UNCHANGED <<store, controls, mounted, means, trend, corrLabel, tooltip,
                 staleTooltips, staleVisible, pointerOn>>

\* The scale a wheel gesture asks for: doubled, halved, or (a long scroll,
\* "far") divided by 16; 0 stands for a scale below 1.
wheelTarget(k, dir) ==
  IF dir = "in" THEN 2 * k
  ELSE IF dir = "out" THEN k \div 2
  ELSE k \div 16

\* History of a zoom gesture about p.
zoomEvent(p, dir) ==
  LET k1 == ClampScale(wheelTarget(transform.k, dir))
  IN Event("zoom", NoName, transform.k, 0, wheelTarget(transform.k, dir),
           ZoomAbout(transform, p, k1) # ScaleAbout(transform, p, k1), 0)

\* A wheel gesture over the zoom overlay; d3 returns without an event when
\* the clamped scale equals the current one.
Wheel(p, dir) ==
  /\ mounted
  /\ pointerOn = NoName
  /\ ClampScale(wheelTarget(transform.k, dir)) # transform.k
  /\ zoomed(ZoomAbout(transform, p, ClampScale(wheelTarget(transform.k, dir))))
  /\ lastEvent' = zoomEvent(p, dir)

\* A double click on the zoom overlay (after its two click events): zoom in
\* by 2, or out by 2 with shift; the zoom event fires even when the clamped
\* transform equals the current one.
DblClick(p, dir) ==
  /\ mounted
  /\ pointerOn = NoName
  /\ lastEvent.kind = "canvas"
  /\ zoomed(ZoomAbout(transform, p, ClampScale(wheelTarget(transform.k, dir))))
  /\ lastEvent' = zoomEvent(p, dir)

(***************************************************************************)
(* Controls.                                                               *)
(***************************************************************************)
\* Variant: suggestions that do not leave out the names on the allowlist.
suggestionsWithListed(st, allow, term) ==
  LET Hit(p) == StrIncludes(toLowerCase(p.NAME), toLowerCase(term))
      hits == SelectSeq(st, Hit)
  IN IF term = <<>> THEN <<>>
     ELSE [i \in 1..Min2(5, Len(hits)) |-> hits[i].NAME]

\* Variant: suggestions without .slice(0, 5).
suggestionsUncut(st, allow, term) ==
  LET Hit(p) == /\ StrIncludes(toLowerCase(p.NAME), toLowerCase(term))
                /\ p.NAME \notin SeqToSet(allow)
      hits == SelectSeq(st, Hit)
  IN IF term = <<>> THEN <<>>
     ELSE [i \in 1..Len(hits) |-> hits[i].NAME]

\* The body of getSearchSuggestions, with the two values it reads from the
\* component state, data (st) and selectedPlayers (allow), as parameters.
suggestions(st, allow, term) ==
  LET Hit(p) == /\ StrIncludes(toLowerCase(p.NAME), toLowerCase(term))
                /\ p.NAME \notin SeqToSet(allow)
      hits == SelectSeq(st, Hit)
  IN IF term = <<>> THEN <<>>
     ELSE [i \in 1..Min2(5, Len(hits)) |-> hits[i].NAME]

getSearchSuggestions(term) == suggestions(data, selectedPlayers, term)

\* <input onChange>
TypeSearch(t) ==
  /\ mounted
  /\ t # searchTerm
  /\ Commit(t, selectedMetric, selectedView, positionFilter, selectedPlayers,
            getSearchSuggestions(t), minMinutes, activeFilters, FALSE, "render")

\* <input onKeyDown> with Enter
PressEnter ==
  /\ mounted
  /\ searchTerm # <<>>
  /\ Len(searchResults) > 0
  /\ Commit(<<>>, selectedMetric, selectedView, positionFilter,
            Append(selectedPlayers, searchResults[1]), <<>>, minMinutes,
            activeFilters, TRUE, "render")

\* suggestion <div onClick>
ClickSuggestion(n) ==
  /\ mounted
  /\ n \in SeqToSet(searchResults)
  /\ Commit(<<>>, selectedMetric, selectedView, positionFilter,
            Append(selectedPlayers, n), <<>>, minMinutes,
            activeFilters, TRUE, "render")

\* chip <button onClick>: prev.filter(p => p !== player)
RemoveChip(n) ==
  LET Other(p) == p # n
  IN /\ mounted
     /\ n \in SeqToSet(selectedPlayers)
     /\ Commit(searchTerm, selectedMetric, selectedView, positionFilter,
               SelectSeq(selectedPlayers, Other), searchResults, minMinutes,
               activeFilters, TRUE, "render")

\* metric <select onChange>
SetMetric(m) ==
  /\ mounted
  /\ m # selectedMetric
  /\ Commit(searchTerm, m, selectedView, positionFilter, selectedPlayers,
            searchResults, minMinutes,
            [activeFilters EXCEPT !.metric = (m # DEFAULT_METRIC)], FALSE, "render")

\* view <select onChange>
SetView(v) ==
  /\ mounted
  /\ v # selectedView
  /\ Commit(searchTerm, selectedMetric, v, positionFilter, selectedPlayers,
            searchResults, minMinutes,
            [activeFilters EXCEPT !.view = (v # DEFAULT_VIEW)], FALSE, "render")

\* position <select onChange>
SetPosition(p) ==
  /\ mounted
  /\ p # positionFilter
  /\ Commit(searchTerm, selectedMetric, selectedView, p, selectedPlayers,
            searchResults, minMinutes,
            [activeFilters EXCEPT !.position = (p # "ALL")], FALSE, "render")

\* Min MPG <input onChange>
SetMinMinutes(v) ==
  /\ mounted
  /\ v # minMinutes
  /\ Commit(searchTerm, selectedMetric, selectedView, positionFilter,
            selectedPlayers, searchResults, v,
            [activeFilters EXCEPT !.minutes = (v > 0)], FALSE, "render")

\* Variant: a reset that leaves the active-filter flags as they are.
resetControlsKeepsFlags ==
  [searchTerm |-> <<>>, selectedPlayers |-> <<>>, searchResults |-> <<>>,
   positionFilter |-> "ALL", minMinutes |-> 0,
   selectedMetric |-> DEFAULT_METRIC, selectedView |-> DEFAULT_VIEW,
   activeFilters |-> activeFilters]

\* The control state the Reset Filters button sets.
resetControls ==
  [searchTerm |-> <<>>, selectedPlayers |-> <<>>, searchResults |-> <<>>,
   positionFilter |-> "ALL", minMinutes |-> 0,
   selectedMetric |-> DEFAULT_METRIC, selectedView |-> DEFAULT_VIEW,
   activeFilters |-> noFilters]

\* Reset Filters <button onClick>: setSelectedPlayers([]) stores a new array.
Reset ==
  /\ mounted
  /\ Commit(resetControls.searchTerm, resetControls.selectedMetric,
            resetControls.selectedView, resetControls.positionFilter,
            resetControls.selectedPlayers, resetControls.searchResults,
            resetControls.minMinutes, resetControls.activeFilters, TRUE, "reset")

\* The text of the badge the "Active filters" row shows for each flag.
badgeText ==
  [position |-> "Position", minutes |-> "Minutes", search |-> "Search",
   metric |-> "View", view |-> "Metric"]

\* The badges on the page.
badges ==
  IF mounted
  THEN {badgeText[f] : f \in {g \in DOMAIN activeFilters : activeFilters[g]}}
  ELSE {}

\* An event handled with the page at rest: every transition an earlier
\* handler started has run to its end, so the attributes are the end values
\* the handlers asked for.
AtRest == UNCHANGED <<running, sample, fit>>

\* The control states explored: at most MaxCustom controls away from their
\* default at the same time.
Bounded ==
  customised(searchTerm, selectedMetric, selectedView, positionFilter,
             selectedPlayers, minMinutes) <= MaxCustom

\* Room for one more name on the allowlist.
Room(max) == Len(selectedPlayers) < max

Next ==
  \/ \E n \in Names : MouseOver(n) /\ AtRest
  \/ \E n \in Names : MouseOut(n) /\ AtRest
  \/ \E n \in Names : ClickDot(n) /\ AtRest
  \/ ClickCanvas /\ AtRest
  \/ \E p \in ZoomAnchors, dir \in {"in", "out"} : Wheel(p, dir) /\ AtRest
  \/ \E p \in ZoomAnchors, dir \in {"in", "out"} : DblClick(p, dir) /\ AtRest
  \/ \E t \in SearchTerms : TypeSearch(t) /\ AtRest /\ Bounded'
  \/ Room(MaxAllow) /\ PressEnter /\ AtRest /\ Bounded'
  \/ \E n \in Names : Room(MaxAllow) /\ ClickSuggestion(n) /\ AtRest /\ Bounded'
  \/ \E n \in Names : RemoveChip(n) /\ AtRest /\ Bounded'
  \/ \E m \in Metrics : SetMetric(m) /\ AtRest /\ Bounded'
  \/ \E v \in Views : SetView(v) /\ AtRest /\ Bounded'
  \/ \E p \in Positions : SetPosition(p) /\ AtRest /\ Bounded'
  \/ \E v \in MinuteChoices : SetMinMinutes(v) /\ AtRest /\ Bounded'
  \/ Reset /\ AtRest

Spec == Init /\ [][Next]_vars

\* Pointer positions for the zoom gestures of SpecZoom: gestures about
\* different points are what moves the translation against its limits.
ZoomAnchorsWide == {<<80, 40>>, <<40, 80>>, <<0, 120>>}

\* The plot under zoom gestures about several points, with canvas clicks and
\* reset but without selection or control changes.
NextZoom ==
  \/ \E p \in ZoomAnchorsWide, dir \in {"in", "out", "far"} : Wheel(p, dir) /\ AtRest
  \/ \E p \in ZoomAnchorsWide, dir \in {"in", "out"} : DblClick(p, dir) /\ AtRest
  \/ ClickCanvas /\ AtRest
  \/ Reset /\ AtRest

SpecZoom == Init /\ [][NextZoom]_vars

\* Stores, allowlists and terms handed to getSearchSuggestions on its own:
\* a roster with seven names containing "d" in either case and one without,
\* and every contiguous run of its rows as the store.
Row(n) == [NAME |-> n]

Roster ==
  << Row(<<"D","i">>), Row(<<"E","d">>), Row(<<"A","l">>), Row(<<"a","d">>),
     Row(<<"B","d">>), Row(<<"D","D">>), Row(<<"d","c">>), Row(<<"C","d">>) >>

SuggestInputs ==
  [store : {SubSeq(Roster, i, j) : i \in 1..2, j \in {0, 3, 6, 7, 8}},
   allow : {<<>>, << <<"E","d">> >>, << <<"a","d">>, <<"D","i">> >>},
   term : {<<>>, <<"D">>, <<"d","c">>}]

\* getSearchSuggestions(sample.term) with sample.store as data and
\* sample.allow as selectedPlayers.
Suggest ==
  /\ ~fit.done
  /\ sample \in SuggestInputs
  /\ fit' = [done |-> TRUE,
             names |-> suggestions(sample.store, sample.allow, sample.term)]
  /\ UNCHANGED <<controls, mounted, scene, lastEvent, store, running, sample>>

\* The search box on its own: typing, Enter, suggestion clicks, chip removal
\* and reset with an allowlist of up to MaxAllow + 1 names and the other
\* controls at their defaults, and getSearchSuggestions on stores long enough
\* to reach its limit.
InitSearch ==
  /\ InitDashboard
  /\ running = noTransitions
  /\ sample \in SuggestInputs
  /\ fit = noFit

NextSearch ==
  \/ \E t \in SearchTerms : TypeSearch(t) /\ AtRest
  \/ Room(MaxAllow + 1) /\ PressEnter /\ AtRest
  \/ \E n \in Names : Room(MaxAllow + 1) /\ ClickSuggestion(n) /\ AtRest
  \/ \E n \in Names : RemoveChip(n) /\ AtRest
  \/ Reset /\ AtRest
  \/ Suggest

SpecSearch == InitSearch /\ [][NextSearch]_vars

(***************************************************************************)
(* Events that arrive while transitions are under way.                     *)
(* selection.transition() schedules a tween of the attributes set on it;   *)
(* when it starts it interrupts the transition running on the same element *)
(* (d3 keeps one active transition per element and name), whatever         *)
(* attributes that one was tweening, and those stay where the last tick    *)
(* left them.  selection.attr() writes at once and interrupts nothing: a   *)
(* running tween of that attribute overwrites the value on its next tick   *)
(* and leaves its own end value.  Of the circle attributes only r is       *)
(* written both ways (by transitions in the pointer handlers, at once in   *)
(* zoomed), so running follows the radius alone: 0 is no transition with   *)
(* r, a positive number the end radius of the one running, Interrupted a   *)
(* radius left part-way by an interrupted one.  circles[n].r is the radius *)
(* the latest handler asked for until TransitionEnd writes the end value.  *)
(***************************************************************************)
Interrupted == -1

\* allDots.transition().duration(1000).attr('r', 6) of the render: every
\* circle enters with a transition of its radius from 0 to 6.
enterTransitions == [n \in Names |-> IF n \in DOMAIN circles THEN 6 ELSE 0]

\* A transition without r starts on circle m.
cut(m) == IF running[m] = 0 THEN 0 ELSE Interrupted

\* mouseover: r -> 8 on the dot; opacity and stroke, no r, on the circles
\* sharing its team or position.
transitionsAfterMouseOver(n) ==
  [m \in Names |->
     IF m = n THEN 8
     ELSE IF /\ m \in DOMAIN circles
             /\ isValidPlayerData(ByName(m), config)
             /\ (ByName(m).TEAM = ByName(n).TEAM \/ ByName(m).POS = ByName(n).POS)
          THEN cut(m)
          ELSE running[m]]

\* mouseout of a dot that is not selected: r -> 6 on the dot, then opacity
\* and stroke width, no r, on every circle:not(.selected), the dot among
\* them; the second interrupts the first after its first tick.
transitionsAfterMouseOut(n) ==
  [m \in Names |->
     IF m \notin DOMAIN circles \/ circles[n].selected \/ circles[m].selected
     THEN running[m]
     ELSE IF m = n /\ (running[n] # 0 \/ circles[n].r # 6) THEN Interrupted
     ELSE cut(m)]

\* click on a dot: every circle gets a transition with r; the last one
\* started on a circle is the one that runs (9 for the dot, 7 for a similar
\* circle, 4 for the others; 6 for all when the click deselects).
transitionsAfterClickDot(n) ==
  [m \in Names |->
     IF m \notin DOMAIN circles THEN running[m]
     ELSE IF circles[n].selected THEN 6
     ELSE IF m = n THEN 9
     ELSE IF m \in similarPlayers(n) THEN 7
     ELSE 4]

\* click on the canvas: r -> 6 on every circle.
transitionsAfterClickCanvas ==
  [m \in Names |-> IF m \in DOMAIN circles THEN 6 ELSE running[m]]

\* zoomed: .attr('r', ...) at once; a radius left part-way is replaced, a
\* running transition goes on.
transitionsAfterZoom ==
  [m \in Names |-> IF running[m] = Interrupted THEN 0 ELSE running[m]]

\* The last tick of the transition running on circle n writes its end
\* radius.
TransitionEnd(n) ==
  /\ mounted
  /\ n \in DOMAIN circles
  /\ running[n] > 0
  /\ circles' = [circles EXCEPT ![n].r = running[n]]
  /\ running' = [running EXCEPT ![n] = 0]
  /\ UNCHANGED <<store, controls, mounted, lines, transform, means, trend,
                 corrLabel, tooltip, staleTooltips, staleVisible, pointerOn,
                 lastEvent, sample, fit>>

\* The page right after a render: the entering transitions are running.
InitTween ==
  /\ InitDashboard
  /\ running = enterTransitions
  /\ sample = <<>>
  /\ fit = noFit

NextTween ==
  \/ \E n \in Names :
       MouseOver(n) /\ running' = transitionsAfterMouseOver(n) /\ UNCHANGED <<sample, fit>>
  \/ \E n \in Names :
       MouseOut(n) /\ running' = transitionsAfterMouseOut(n) /\ UNCHANGED <<sample, fit>>
  \/ \E n \in Names :
       ClickDot(n) /\ running' = transitionsAfterClickDot(n) /\ UNCHANGED <<sample, fit>>
  \/ ClickCanvas /\ running' = transitionsAfterClickCanvas /\ UNCHANGED <<sample, fit>>
  \/ \E p \in ZoomAnchors, dir \in {"in", "out"} :
       Wheel(p, dir) /\ running' = transitionsAfterZoom /\ UNCHANGED <<sample, fit>>
  \/ \E n \in Names : TransitionEnd(n)

SpecTween == InitTween /\ [][NextTween]_vars

(***************************************************************************)
(* Properties.                                                             *)
(***************************************************************************)
\* The similarity predicate as the design states it, without a division:
\* p is not d, both have a value for the y-metric, p shares d's category
\* (POS) or group (TEAM), and |p[y] - d[y]| < 0.2 * d[y].
SimilarTo(d) ==
  {p \in DOMAIN circles \ {d} :
     /\ ByName(p)[config.y] # Null
     /\ ByName(d)[config.y] # Null
     /\ (ByName(p).POS = ByName(d).POS \/ ByName(p).TEAM = ByName(d).TEAM)
     /\ 5 * Abs(ByName(p)[config.y] - ByName(d)[config.y]) < ByName(d)[config.y]}

\* The circles drawn in the similar-to-selection tier.
Highlighted ==
  {m \in DOMAIN circles :
     /\ ~circles[m].selected
     /\ circles[m].r = 7
     /\ circles[m].opacity = 100
     /\ circles[m].stroke = "#fff"}

\* Every circle is drawn in the default tier and none is selected.
NoneMarked ==
  \A m \in DOMAIN circles :
    /\ ~circles[m].selected
    /\ circles[m].r = 6
    /\ circles[m].opacity = baseOpacity(m, searchTerm)

\* C1: in every reachable state at most one plotted point carries the
\* primary-selection mark.
C1_AtMostOnePrimary == Cardinality(SelectedNames) <= 1

\* C1 witness: one point is selected while the plot is zoomed and the
\* pointer rests on another point.
C1_Witness ==
  /\ Cardinality(SelectedNames) = 1
  /\ transform.k > 1
  /\ pointerOn # NoName
  /\ pointerOn \notin SelectedNames

\* C2: after a click on point B while another point A was the primary,
\* exactly B is selected, exactly B's similarity set is highlighted, and
\* the connector lines are those from B to its similarity set.
C2_SecondClickReplaces ==
  (lastEvent.kind = "select" /\ lastEvent.prev # NoName) =>
    \E b \in DOMAIN circles :
      /\ b # lastEvent.prev
      /\ SelectedNames = {b}
      /\ Highlighted = SimilarTo(b)
      /\ \A l \in lines : l.source = b
      /\ {l.target : l \in lines} = SimilarTo(b)

\* C2 witness: a second selecting click, where the earlier primary had
\* connector lines and the new one has too.
C2_Witness ==
  /\ lastEvent.kind = "select"
  /\ lastEvent.prev # NoName
  /\ SimilarTo(lastEvent.prev) # {}
  /\ lines # {}

\* C3: after a click on the current primary no point is selected, no point
\* is highlighted as similar, no connector line is left and the tooltip is
\* hidden.
C3_ClickPrimaryIdles ==
  lastEvent.kind = "deselect" =>
    /\ NoneMarked
    /\ Highlighted = {}
    /\ lines = {}
    /\ ~tooltip.visible

\* C3 witness: the primary that was clicked had similar points, hence lines.
C3_Witness ==
  /\ lastEvent.kind = "deselect"
  /\ lastEvent.prev # NoName
  /\ SimilarTo(lastEvent.prev) # {}

\* C4: after a click on the empty canvas no point is selected, no connector
\* line is left and the tooltip is hidden; and a click on a point does not
\* run the canvas handler: after a selecting click the selection and its
\* tooltip stand.
C4_CanvasClickIdles ==
  /\ lastEvent.kind = "canvas" =>
       /\ SelectedNames = {}
       /\ lines = {}
       /\ ~tooltip.visible
  /\ lastEvent.kind = "select" =>
       /\ SelectedNames # {}
       /\ tooltip.visible
       /\ {l.target : l \in lines} = SimilarTo(primary)

\* C4 witness: the canvas was clicked while a point with connector lines
\* was selected.
C4_Witness ==
  /\ lastEvent.kind = "canvas"
  /\ lastEvent.prev # NoName
  /\ SimilarTo(lastEvent.prev) # {}

\* C5: after a reset, from whatever state, the zoom transform is the
\* identity, no point is selected, no connector line exists and no point is
\* hovered.
C5_ResetClearsScene ==
  lastEvent.kind = "reset" =>
    /\ transform = zoomIdentity
    /\ SelectedNames = {}
    /\ lines = {}
    /\ pointerOn = NoName
    /\ NoneMarked

\* C5 witness: reset pressed with every control at its default while the
\* plot was zoomed and a point was selected.
C5_Witness ==
  /\ lastEvent.kind = "reset"
  /\ lastEvent.preCustom = 0
  /\ lastEvent.preK > 1
  /\ lastEvent.prev # NoName

\* C6: after a reset the search term, allowlist, suggestions, position
\* filter, minutes threshold, metric and view hold their defaults and every
\* active-filter flag is cleared; a reset applied to the state a reset left
\* changes neither the controls nor the plot.
C6_ResetRevertsControls ==
  /\ [](lastEvent.kind = "reset" =>
          /\ searchTerm = <<>>
          /\ selectedPlayers = <<>>
          /\ searchResults = <<>>
          /\ positionFilter = "ALL"
          /\ minMinutes = 0
          /\ selectedMetric = "PPG"
          /\ selectedView = "scoring"
          /\ \A f \in DOMAIN activeFilters : ~activeFilters[f])
  /\ [][(lastEvent.kind = "reset" /\ lastEvent'.kind = "reset") =>
          /\ controls' = controls
          /\ <<circles, lines, transform, means, trend>>' =
               <<circles, lines, transform, means, trend>>]_vars

\* C6 witness: reset pressed while a control was away from its default.
C6_Witness ==
  /\ lastEvent.kind = "reset"
  /\ lastEvent.preCustom > 0
  /\ searchTerm = <<>>

\* C7: on a selecting click on d, the points connected and highlighted as
\* similar are exactly those the similarity predicate names, and no
\* division by zero decides the membership of any point: every relative
\* difference the filter computes is a finite number.
C7_SimilarityGuarded ==
  lastEvent.kind = "select" =>
    /\ similarPlayers(primary) \ {primary} = SimilarTo(primary)
    /\ \A p \in DOMAIN circles :
         statDiff(ByName(p)[config.y], ByName(primary)[config.y]).kind = "finite"

\* C8: every connector line starts at the pixel at which its primary is
\* drawn and ends at the pixel at which its similar point is drawn.
C8_LinesMeetPoints ==
  \A l \in lines :
    /\ l.x1 = circles[l.source].cx
    /\ l.y1 = circles[l.source].cy
    /\ l.x2 = circles[l.target].cx
    /\ l.y2 = circles[l.target].cy

\* C9: after a zoom event the mean lines and the regression line lie where
\* the rescaled axes put them.
C9_OverlaysFollowZoom ==
  lastEvent.kind = "zoom" =>
    LET base == renderTable[<<searchTerm, selectedMetric, selectedView,
                              positionFilter, selectedPlayers, minMinutes>>]
    IN /\ means = [x |-> applyX(transform, base.means.x),
                   y |-> applyY(transform, base.means.y)]
       /\ trend = [x1 |-> applyX(transform, base.trend.x1),
                   y1 |-> applyY(transform, base.trend.y1),
                   x2 |-> applyX(transform, base.trend.x2),
                   y2 |-> applyY(transform, base.trend.y2)]

\* C10: the zoom scale factor stays within [1, 8]; a gesture asking for a
\* scale outside it ends at the nearer end of the range, and the component
\* stays mounted.
C10_ScaleWithinExtent ==
  /\ transform.k >= 1
  /\ transform.k <= 8
  /\ lastEvent.kind = "zoom" =>
       /\ mounted
       /\ transform.k = (IF lastEvent.asked > 8 THEN 8
                         ELSE IF lastEvent.asked < 1 THEN 1
                         ELSE lastEvent.asked)

\* C10 witness: a zoom-in gesture at the largest scale, asking for 16.
C10_Witness ==
  /\ lastEvent.kind = "zoom"
  /\ lastEvent.asked > 8
  /\ transform.k = 8

\* C11: the viewport, inverted through the zoom transform, lies within the
\* plot area [0, width] x [0, height]: -x/k >= 0 and (width - x)/k <= width,
\* likewise for y.
C11_ViewportWithinPlot ==
  /\ transform.x <= 0
  /\ PlotWidth - transform.x <= transform.k * PlotWidth
  /\ transform.y <= 0
  /\ PlotHeight - transform.y <= transform.k * PlotHeight

\* C11 witness: a zoom-out gesture at a scale above 1 whose translation the
\* constraint had to move back into the plot area.
C11_Witness ==
  /\ lastEvent.kind = "zoom"
  /\ lastEvent.moved
  /\ lastEvent.preK > transform.k
  /\ transform.k > 1

\* C12: whenever the zoom is back at scale 1 (by a gesture or by the reset
\* button), every circle is at the pixel the base scales give it, the
\* position it had before any zoom.
C12_ZoomRoundTrip ==
  transform.k = 1 =>
    \A n \in DOMAIN circles :
      /\ circles[n].cx = xScale(ByName(n)[config.x], config)
      /\ circles[n].cy = yScale(ByName(n)[config.y], config)

\* C12 witness: a single gesture took the zoom from scale 4, at an offset
\* other than the one that gesture's pointer position would undo, back to 1.
C12_Witness ==
  /\ lastEvent.kind = "zoom"
  /\ lastEvent.preK = 4
  /\ lastEvent.moved
  /\ transform.k = 1

\* C13: selection clicks, hover events, search-term edits and filter or
\* axis control changes leave the zoom transform as it is.
C13_OnlyGesturesMoveZoom ==
  [][lastEvent'.kind \in {"select", "deselect", "mouseover", "mouseout", "render"}
       => transform' = transform]_vars

\* C14: a pointer-enter or pointer-leave on the point of the primary
\* selection changes neither its radius nor its stroke.
C14_HoverSparesPrimary ==
  [][\A n \in SelectedNames :
       (\/ lastEvent'.kind = "mouseover" /\ pointerOn' = n
        \/ lastEvent'.kind = "mouseout" /\ pointerOn = n)
       => /\ circles'[n].r = circles[n].r
          /\ circles'[n].stroke = circles[n].stroke
          /\ circles'[n].strokeWidth = circles[n].strokeWidth]_vars

\* C15: while a selection is active and the pointer is not on the primary,
\* the primary has radius 9, opacity 1 and the accent stroke, and every
\* point of its similar set has radius 7 and opacity 1.
C15_SelectionVisualsPersist ==
  (SelectedNames # {} /\ pointerOn \notin SelectedNames) =>
    /\ circles[primary].r = 9
    /\ circles[primary].opacity = 100
    /\ circles[primary].stroke = "#ff6b6b"
    /\ \A m \in SimilarTo(primary) :
         circles[m].r = 7 /\ circles[m].opacity = 100

\* C16: a point that is neither selected, nor similar to the selection, nor
\* hovered has opacity 0.3 when the search term misses its name and
\* otherwise radius 6 and opacity 0.7.
C16_DefaultTier ==
  \A m \in DOMAIN circles :
    (/\ m \notin SelectedNames
     /\ (SelectedNames = {} \/ m \notin SimilarTo(primary))
     /\ m # pointerOn)
    => IF SearchMiss(ByName(m), searchTerm)
       THEN circles[m].opacity = 30
       ELSE circles[m].r = 6 /\ circles[m].opacity = 70

\* C17: a pointer-leave with no selection active leaves no point with hover
\* visuals, the left point with the radius it had when the pointer entered,
\* every point at its un-hovered opacity and without the hovered tier's
\* radius or stroke width, and the tooltip hidden.
C17_HoverIsTransient ==
  [][(lastEvent.kind = "mouseover" /\ lastEvent'.kind = "mouseout"
      /\ SelectedNames = {})
     => /\ circles'[pointerOn].r = lastEvent.hadR
        /\ \A m \in DOMAIN circles :
             /\ circles'[m].r # 8
             /\ circles'[m].opacity = baseOpacity(m, searchTerm)
             /\ circles'[m].strokeWidth # 20
        /\ ~tooltip'.visible
        /\ pointerOn' = NoName]_vars

\* C18: a scatter tooltip (that of the current render or one left by an
\* earlier render) is visible only while a point is hovered or selected.
C18_TooltipNeedsHoverOrSelection ==
  (tooltip.visible \/ staleVisible) =>
    (pointerOn # NoName \/ SelectedNames # {})

\* The filtered subset the plot was rendered from.
Subset ==
  filteredPlayers(selectedPlayers, positionFilter, minMinutes, selectedMetric)

\* All values of a column are equal (so also: no or one row).
ZeroVariance(s, key) ==
  \A i, j \in 1..Len(s) : Num(s[i][key]) = Num(s[j][key])

\* C19: when the filtered subset has fewer than 2 points or no variance in
\* x, the plot shows no regression line with NaN endpoints.
C19_DegenerateRegressionHidden ==
  (mounted /\ (Len(Subset) < 2 \/ ZeroVariance(Subset, config.x))) =>
    NaNPx \notin {trend.x1, trend.y1, trend.x2, trend.y2}

\* C20: when either axis of the filtered subset has no variance, the
\* correlation label does not show NaN.
C20_DegenerateCorrelationGuarded ==
  (mounted /\ (ZeroVariance(Subset, config.x) \/ ZeroVariance(Subset, config.y))) =>
    corrLabel # "NaN"

RECURSIVE SeqSum(_)
SeqSum(q) == IF q = <<>> THEN 0 ELSE Head(q) + SeqSum(Tail(q))

\* The x and y cells of row i as the arithmetic reads them, times the row
\* count and centred on the column sum.
DevX(s, i) == Len(s) * Num(s[i].USG) - SeqSum([j \in 1..Len(s) |-> Num(s[j].USG)])
DevY(s, i) == Len(s) * Num(s[i].PPG) - SeqSum([j \in 1..Len(s) |-> Num(s[j].PPG)])

\* The point (x0, y.num / y.den) lies on the least-squares line of s: the
\* line through it and the centroid leaves residuals orthogonal to x.
OnLeastSquares(s, x0, y) ==
  LET n  == Len(s)
      Sx == SeqSum([j \in 1..n |-> Num(s[j].USG)])
      Sy == SeqSum([j \in 1..n |-> Num(s[j].PPG)])
  IN /\ y.den # 0
     /\ SeqSum([i \in 1..n |->
           DevX(s, i) * (DevY(s, i) * (n * x0 - Sx) * y.den
                         - (n * y.num - Sy * y.den) * DevX(s, i))]) = 0

\* The x cells of s that hold a value.
ObservedX(s) == {s[i].USG : i \in 1..Len(s)} \ {Null}

\* C21: for an array of at least two rows whose x column has variance, the
\* regression line returned has its endpoints at the least and the greatest
\* observed x, each with the y of the least-squares line at that x.
C21_EndpointsOnFit ==
  (fit.done /\ Len(sample) >= 2 /\ ~ZeroVariance(sample, "USG")) =>
    /\ fit.line.x1 \in ObservedX(sample)
    /\ fit.line.x2 \in ObservedX(sample)
    /\ \A x \in ObservedX(sample) : fit.line.x1 <= x /\ x <= fit.line.x2
    /\ OnLeastSquares(sample, fit.line.x1, fit.line.y1)
    /\ OnLeastSquares(sample, fit.line.x2, fit.line.y2)

C21_Witness ==
  /\ fit.done
  /\ Len(sample) = 3
  /\ ~ZeroVariance(sample, "USG")
  /\ fit.line.x1 = 2
  /\ fit.line.x2 = 4

\* The array [(1,2), (2,4), (3,5), (4,8)].
toyDataset == <<Pt(1, 2), Pt(2, 4), Pt(3, 5), Pt(4, 8)>>

\* C22: for the array [(1,2), (2,4), (3,5), (4,8)] the regression line has
\* slope 1.9 and intercept 0 (it runs from (1, 1.9) to (4, 7.6)), and the
\* correlation coefficient r is above 0.95 with r * r = 90.25 / 93.75.
C22_ToyDatasetValues ==
  (fit.done /\ sample = toyDataset) =>
    /\ fit.line.x1 = 1 /\ 10 * fit.line.y1.num = 19 * fit.line.y1.den
    /\ fit.line.x2 = 4 /\ 10 * fit.line.y2.num = 76 * fit.line.y2.den
    /\ fit.line.y1.den # 0 /\ fit.line.y2.den # 0
    /\ fit.corr.numerator > 0
    /\ 400 * fit.corr.numerator * fit.corr.numerator
         > 361 * fit.corr.xVariance * fit.corr.yVariance
    /\ 9375 * fit.corr.numerator * fit.corr.numerator
         = 9025 * fit.corr.xVariance * fit.corr.yVariance

C22_Witness == fit.done /\ sample = toyDataset

\* C23: an entity whose cell for the metric on the y-axis is empty is not
\* among the plotted points, and is still in the store.
C23_AbsentNotPlotted ==
  mounted =>
    \A p \in Players :
      p[config.y] = Null =>
        (p.NAME \notin DOMAIN circles /\ p \in SeqToSet(store))

\* The rows of s with a value in both the x and the y column.
BothPresent(s) ==
  LET Has(p) == p[config.x] # Null /\ p[config.y] # Null IN SelectSeq(s, Has)

\* C24: the regression line, the correlation and the mean lines are those
\* of the filtered entities that have a value on both axes.
C24_StatsSkipAbsent ==
  mounted =>
    /\ trend = trendLine(BothPresent(Subset), config)
    /\ means = meanLines(BothPresent(Subset), config)
    /\ corrLabel = calculateCorrelation(BothPresent(Subset), config.x, config.y)

\* C25: no control setting leaves a chart effect throwing on an empty
\* filtered subset, and no mean is taken of an empty subset.
C25_EmptySubsetSafe ==
  Subset = <<>> => (mounted /\ lastEvent.kind # "crash")

IndexInStore(p) == CHOOSE i \in 1..Len(store) : store[i] = p

\* C27 as stated: the filtered subset keeps the relative order its entities
\* have in the store.
C27_StoreOrderKept ==
  \A i, j \in 1..Len(Subset) :
    i < j => IndexInStore(Subset[i]) < IndexInStore(Subset[j])

\* C27 as the code has it: the filtered subset is in descending order of the
\* selected metric (an empty cell counting as 0), entities with equal values
\* in the order of the store.
C27_SortedByMetric ==
  \A i, j \in 1..Len(Subset) :
    i < j =>
      \/ Num(Subset[i][selectedMetric]) > Num(Subset[j][selectedMetric])
      \/ /\ Num(Subset[i][selectedMetric]) = Num(Subset[j][selectedMetric])
         /\ IndexInStore(Subset[i]) < IndexInStore(Subset[j])

C27_Witness ==
  /\ mounted
  /\ Len(Subset) = 4
  /\ IndexInStore(Subset[1]) = 4
  /\ Num(Subset[3][selectedMetric]) = Num(Subset[4][selectedMetric])

\* C28: the store holds the rows it was loaded with, in the order they were
\* loaded in, whatever has been filtered, sorted, searched, selected, zoomed
\* or reset since.
C28_StoreAsLoaded == store = data

C28_Witness ==
  /\ mounted
  /\ store = data
  /\ selectedMetric = "BPG"
  /\ Subset # store
  /\ transform.k > 1
  /\ SelectedNames # {}

\* The greatest value of a column of the store.
ColumnTop(key) ==
  CHOOSE m \in {Num(store[i][key]) : i \in 1..Len(store)} :
    \A i \in 1..Len(store) : Num(store[i][key]) <= m

\* C29: every plotted point sits where the zoom transform puts the pixel of
\* a base scale whose domain runs from 0 to the greatest value of the axis
\* column: the base domains depend on the axis pair only, and neither a zoom
\* event nor a filter moves them.
C29_BaseDomainsFixed ==
  mounted =>
    \A n \in DOMAIN circles :
      /\ circles[n].cx =
           transform.k * ((Num(ByName(n)[config.x]) * PlotWidth)
                            \div ColumnTop(config.x)) + transform.x
      /\ circles[n].cy =
           transform.k * (PlotHeight - ((Num(ByName(n)[config.y]) * PlotHeight)
                                          \div ColumnTop(config.y))) + transform.y

C29_Witness ==
  /\ mounted
  /\ positionFilter = "F"
  /\ transform.k = 2
  /\ \E n \in DOMAIN circles : ByName(n)[config.x] = ColumnTop(config.x)
  /\ \A n \in DOMAIN circles : ByName(n)[config.y] < ColumnTop(config.y)

\* No transition of a radius is running.
Settled == \A n \in Names : running[n] <= 0

\* C30: the selection is in place as soon as the click has been handled,
\* whatever transitions are running; a zoom that arrives while they run
\* reads it; and once the transitions have ended every point has the radius
\* the latest event gave it.
C30_LatestEventDecides ==
  /\ lastEvent.kind = "select" => Cardinality(SelectedNames) = 1
  /\ lastEvent.kind \in {"deselect", "canvas"} => SelectedNames = {}
  /\ (lastEvent.kind = "zoom" /\ Settled) =>
       \A n \in DOMAIN circles :
         running[n] = 0 /\ circles[n].r = zoomRadius(n)

\* C31: in every reachable state connector lines exist only while some
\* point is the primary selection: with no point selected (at load, after a
\* deselecting click, after a canvas click, after a re-render caused by a
\* control) the set of connector lines is empty.
C31_LinesNeedPrimary == SelectedNames = {} => lines = {}

\* C31 witness: the chart was re-rendered by a control while a tooltip was
\* showing, and the new chart has points, none selected and no line.
C31_Witness ==
  /\ lastEvent.kind = "render"
  /\ staleVisible
  /\ DOMAIN circles # {}
  /\ SelectedNames = {}
  /\ lines = {}

\* C32: after a selecting click the number of similar players the tooltip
\* reports equals the number of connector lines drawn and is not negative,
\* also when the y-value of the clicked point is 0.
C32_CountMatchesLines ==
  lastEvent.kind = "select" =>
    /\ tooltip.count = Cardinality(lines)
    /\ tooltip.count >= 0

\* C33: after any number of re-renders of the scatter plot at most one
\* scatter tooltip <div> exists in the document: the one of the current
\* render, none of an earlier render.
C33_OneTooltipElement == mounted => staleTooltips + 1 <= 1

\* A sequence without a repeated element.
NoRepeat(q) == \A i, j \in 1..Len(q) : q[i] = q[j] => i = j

\* C34: after any sequence of typing, Enter, suggestion clicks, chip
\* removals and resets the allowlist holds no name twice and the suggestion
\* list holds no name that is on the allowlist.
C34_AllowlistDistinct ==
  /\ NoRepeat(selectedPlayers)
  /\ SeqToSet(searchResults) \cap SeqToSet(selectedPlayers) = {}

\* C34 witness: two names were added one after the other, and a term that
\* matches both is in the search box.
C34_Witness ==
  /\ Len(selectedPlayers) = 2
  /\ \A i \in 1..2 :
       StrIncludes(toLowerCase(selectedPlayers[i]), toLowerCase(searchTerm))
  /\ searchTerm # <<>>

\* The elements of r occur in q in the order of r.
RECURSIVE InOrder(_, _)
InOrder(r, q) ==
  IF r = <<>> THEN TRUE
  ELSE IF q = <<>> THEN FALSE
  ELSE IF Head(r) = Head(q) THEN InOrder(Tail(r), Tail(q))
  ELSE InOrder(r, Tail(q))

\* The NAME column of a store.
NamesOf(st) == [i \in 1..Len(st) |-> st[i].NAME]

\* C35: getSearchSuggestions returns at most 5 names, in store order, each
\* containing the search term whatever the case of the letters and none on
\* the allowlist, and the empty list for the empty term; and a step that
\* adds a name to the allowlist starts with a non-empty suggestion list that
\* holds the name, and leaves the search term and the suggestion list empty.
C35_SuggestionsAndAdd ==
  /\ [](fit.done =>
          /\ Len(fit.names) <= 5
          /\ InOrder(fit.names, NamesOf(sample.store))
          /\ \A i \in 1..Len(fit.names) :
               /\ StrIncludes(toLowerCase(fit.names[i]), toLowerCase(sample.term))
               /\ fit.names[i] \notin SeqToSet(sample.allow)
          /\ sample.term = <<>> => fit.names = <<>>)
  /\ [][Len(selectedPlayers') > Len(selectedPlayers) =>
          /\ searchResults # <<>>
          /\ selectedPlayers'[Len(selectedPlayers')] \in SeqToSet(searchResults)
          /\ SubSeq(selectedPlayers', 1, Len(selectedPlayers)) = selectedPlayers
          /\ searchTerm' = <<>>
          /\ searchResults' = <<>>]_vars

\* C35 witness: the store had more than 5 matching rows not on the
\* allowlist, 5 names came back, and the search box has added a name.
C35_Witness ==
  /\ fit.done
  /\ Len(fit.names) = 5
  /\ Len(suggestionsUncut(sample.store, sample.allow, sample.term)) > 5
  /\ sample.allow # <<>>
  /\ selectedPlayers # <<>>

\* C36: a zoom event does not change which point is the primary selection,
\* and a click (on a point or on the canvas) or a hover event does not
\* change the zoom transform.
C36_ZoomAndSelectionApart ==
  [][/\ lastEvent'.kind = "zoom" => SelectedNames' = SelectedNames
     /\ lastEvent'.kind \in {"select", "deselect", "canvas", "mouseover", "mouseout"}
          => transform' = transform]_vars

\* C36 witness: a zoom event was handled while a point with connector lines
\* was selected, and it moved the plot.
C36_Witness ==
  /\ lastEvent.kind = "zoom"
  /\ lastEvent.preK # transform.k
  /\ SelectedNames # {}
  /\ lines # {}

\* The control each active-filter flag belongs to, by the name the page
\* gives the control.
controlName ==
  [position |-> "Position", minutes |-> "Minutes", search |-> "Search",
   metric |-> "Metric", view |-> "View"]

\* C37: in every reachable state the position flag is set iff the position
\* filter is not ALL, the minutes flag iff the threshold is above 0, the
\* metric flag iff the metric is not the default, the view flag iff the view
\* is not the default, and the badges shown name exactly the controls whose
\* flags are set.
C37_FlagsMirrorControls ==
  mounted =>
    /\ activeFilters.position <=> positionFilter # "ALL"
    /\ activeFilters.minutes <=> minMinutes > 0
    /\ activeFilters.metric <=> selectedMetric # DEFAULT_METRIC
    /\ activeFilters.view <=> selectedView # DEFAULT_VIEW
    /\ badges = {controlName[f] : f \in {g \in DOMAIN activeFilters : activeFilters[g]}}
====
